---- MODULE Spec2Model ----
(***************************************************************************)
(* A model of blog_clip.ipynb: the product dataset, the OpenSearch index   *)
(* "clip-index" the notebook creates, fills and queries, and the query     *)
(* path encode_image / encode_name -> search_products.                     *)
(*                                                                         *)
(* The notebook runs on one kernel: one cell at a time.  What runs beside  *)
(* it is the index: its periodic refresh, which makes the documents        *)
(* written so far visible to search, and, in TimeoutSpec, the write of an  *)
(* es.index call that timed out at the client.  SkewSpec is the notebook   *)
(* over an incomplete batch output and a model of another width; LiveSpec  *)
(* is Spec with the refresh never put off for ever.                        *)
(* QueryLiveSpec is Spec with a query cell that keeps running; DiskSpec    *)
(* starts from an empty ./data/images; LabelSpec is the ingestion over a   *)
(* data frame whose index is not 0..n-1; EndpointSpec is the inference     *)
(* code of an endpoint serving one request.                                *)
(***************************************************************************)
EXTENDS Integers, Sequences, FiniteSets, TLC

\* Bounds of the model.
MaxRows == 2          \* rows of the merged dataset
MaxK == 2             \* largest k a caller passes to search_products
MaxLate == 1          \* writes of timed-out calls on their way at one time

None == "None"

\* item_id values of the listings (strings in the data, ordered like these).
ItemIds == {1, 2}

\* images/metadata path values; the item name of a listing is tied to its
\* image here, so that a name identifies the row it was read from.
Paths == {"p1", "p2"}

Texts == {"rose", "broom"}

NameOf(p) == IF p = "p1" THEN "glass" ELSE "broom kit"

\* dataset = meta.merge(image_meta, ...): one row per listing, index 0..n-1.
Rows == {[item_id |-> i, item_name_in_en_us |-> NameOf(p), path |-> p] :
            i \in ItemIds, p \in Paths}

RECURSIVE SeqsUpTo(_, _)
SeqsUpTo(S, n) ==
    IF n = 0 THEN {<<>>}
    ELSE LET shorter == SeqsUpTo(S, n - 1)
         IN  shorter \cup {Append(s, x) : s \in {t \in shorter : Len(t) = n - 1}, x \in S}

Datasets == SeqsUpTo(Rows, MaxRows)

----------------------------------------------------------------------------
(* The CLIP model behind the batch transform job and the two endpoints.    *)

\* predict_fn with ENCODE_TYPE = IMAGE: the embedding of an image.
ClipImage(p) ==
    IF p = "p1" THEN <<1, 0>> ELSE <<2, 1>>

\* predict_fn with ENCODE_TYPE = TEXT: the embedding of a sentence.
ClipText(sentence) ==
    CASE sentence = <<"this is a", "rose">>  -> <<1, 1>>
      [] sentence = <<"this is a", "broom">> -> <<-1, 1>>
      [] OTHER                               -> <<1, -1>>

\* encode_name: the prompt "this is a {item_name}" is built with an f-string,
\* which formats whatever it is given (None becomes the text "None").
Prompt(item_name) == <<"this is a", item_name>>

encode_name(item_name) == ClipText(Prompt(item_name))

\* The file encode_image reads when it is called without one.
DefaultFile == "p1"

\* index_settings, "dimension": 1024: the width of RN50's embeddings, the
\* model the notebook deploys.
dimension == Len(ClipImage(DefaultFile))

\* What the inference code answers when MODEL_NAME names a CLIP model of
\* another width than RN50's: an embedding with one component more.
OtherModel(v) == Append(v, 1)

\* The inference code of an endpoint.  A request body is a string of bytes:
\* the bytes of an image file, bytes that are no image, or a JSON document
\* {"inputs": [sentence]}.
ContentTypes == {"application/json", "application/x-image", "text/csv"}
NoImage == "noise"
ImageBytes(p) == [kind |-> "bytes", image |-> p, inputs |-> <<>>]
JsonInputs(sentence) == [kind |-> "json", image |-> None, inputs |-> <<sentence>>]
EmptyString == <<>>
RequestBodies ==
    {ImageBytes(p) : p \in Paths \cup {NoImage}}
        \cup {JsonInputs(sn) : sn \in {Prompt("rose"), Prompt(""), EmptyString}}

NoData == [kind |-> "none", image |-> None, inputs |-> <<>>]

\* An input_fn that takes the body of an unknown content type for an image.
input_fnAnyType(request_body, request_content_type) ==
    IF request_content_type = "application/json"
    THEN IF request_body.kind = "json"
         THEN [err |-> None, data |-> [kind |-> "texts", image |-> None,
                                       inputs |-> request_body.inputs]]
         ELSE [err |-> "JSONDecodeError", data |-> NoData]
    ELSE IF request_body.kind = "bytes" /\ request_body.image \in Paths
         THEN [err |-> None, data |-> [kind |-> "image", image |-> request_body.image,
                                       inputs |-> <<>>]]
         ELSE [err |-> "UnidentifiedImageError", data |-> NoData]

\* input_fn: the assert on the content type, then json.loads(...)["inputs"]
\* or Image.open(io.BytesIO(request_body)).
input_fn(request_body, request_content_type) ==
    IF request_content_type \notin {"application/json", "application/x-image"}
    THEN [err |-> "AssertionError", data |-> NoData]
    ELSE IF request_content_type = "application/json"
    THEN IF request_body.kind = "json"
         THEN [err |-> None, data |-> [kind |-> "texts", image |-> None,
                                       inputs |-> request_body.inputs]]
         ELSE [err |-> "JSONDecodeError", data |-> NoData]
    ELSE IF request_body.kind = "bytes" /\ request_body.image \in Paths
         THEN [err |-> None, data |-> [kind |-> "image", image |-> request_body.image,
                                       inputs |-> <<>>]]
         ELSE [err |-> "UnidentifiedImageError", data |-> NoData]

\* predict_fn: clip.tokenize and encode_text, or preprocess_fn and
\* encode_image, after ENCODE_TYPE; the tokenizer takes any string, the empty
\* one included, and neither takes the other's kind of input.
predict_fn(input_object, encode_type) ==
    IF encode_type = "TEXT"
    THEN IF input_object.kind = "texts"
         THEN [err |-> None, prediction |-> <<ClipText(input_object.inputs[1])>>]
         ELSE [err |-> "TypeError", prediction |-> <<>>]
    ELSE IF input_object.kind = "image"
         THEN [err |-> None, prediction |-> <<ClipImage(input_object.image)>>]
         ELSE [err |-> "TypeError", prediction |-> <<>>]

\* output_fn: assert content_type == "application/json", then the json of
\* the prediction.
output_fn(predictions, content_type) ==
    IF content_type = "application/json"
    THEN [err |-> None, response |-> predictions]
    ELSE [err |-> "AssertionError", response |-> <<>>]

\* The embeddings list of the load loop: embeddings[idx] is the batch
\* transform's output for row idx's image.
LoadEmbeddings(ds) == [i \in 1..Len(ds) |-> ClipImage(ds[i].path)]

\* The rows the load loop gets through when only the images in outs have an
\* output file: open(embedding_file) raises at the first row without one.
LoadCount(ds, outs) ==
    CHOOSE n \in 0..Len(ds) :
        /\ \A i \in 1..n : ds[i].path \in outs
        /\ n < Len(ds) => ds[n + 1].path \notin outs

\* The embeddings list that load loop leaves behind, from a batch transform
\* that ran RN50 or a model of another width.
LoadEmbeddingsFrom(ds, outs, other) ==
    [i \in 1..LoadCount(ds, outs) |->
        IF other THEN OtherModel(ClipImage(ds[i].path)) ELSE ClipImage(ds[i].path)]

----------------------------------------------------------------------------
(* Cosine similarity, kept exact: the signed square of the cosine as the   *)
(* fraction <<num, den>>.  The index's _score is a strictly increasing     *)
(* function of the cosine and is 1.0 exactly when the cosine is 1.         *)

RECURSIVE DotUpTo(_, _, _)
DotUpTo(a, b, n) == IF n = 0 THEN 0 ELSE a[n] * b[n] + DotUpTo(a, b, n - 1)

Dot(a, b) == DotUpTo(a, b, Len(a))

Sgn(x) == IF x > 0 THEN 1 ELSE IF x < 0 THEN -1 ELSE 0

\* A similarity that forgets to normalise by the stored vector's length.
CosineSimilRaw(a, q) == <<Sgn(Dot(a, q)) * Dot(a, q) * Dot(a, q), Dot(q, q)>>

CosineSimil(a, q) == <<Sgn(Dot(a, q)) * Dot(a, q) * Dot(a, q), Dot(a, a) * Dot(q, q)>>

\* s > t and s = t for two such fractions (denominators are positive).
ScoreGt(s, t) == s[1] * t[2] > t[1] * s[2]
ScoreEq(s, t) == s[1] * t[2] = t[1] * s[2]
MaxScore(s) == s[1] = s[2]

----------------------------------------------------------------------------
(* The OpenSearch index.  A store is [index, docs]: index is "absent",     *)
(* "knn" (created with index_settings: knn_vector, cosinesimil) or         *)
(* "dynamic" (made by the first write to a missing index, with no knn      *)
(* mapping); docs is the sequence of documents in the order they were last *)
(* written.                                                                *)

NoStore == [index |-> "absent", docs |-> <<>>]

Doc(id, body) ==
    [id |-> id, item_name_in_en_us |-> body.item_name_in_en_us,
     embeddings |-> body.embeddings]

\* A write that leaves the index with the written document alone.
EsIndexAlone(st, id, body) ==
    [index |-> IF st.index = "absent" THEN "dynamic" ELSE st.index,
     docs  |-> <<Doc(id, body)>>]

\* A write that updates the embedding of a document that is there and keeps
\* its other fields.
EsIndexMerge(st, id, body) ==
    [index |-> IF st.index = "absent" THEN "dynamic" ELSE st.index,
     docs  |-> IF \E i \in 1..Len(st.docs) : st.docs[i].id = id
               THEN [i \in 1..Len(st.docs) |->
                        IF st.docs[i].id = id
                        THEN [st.docs[i] EXCEPT !.embeddings = body.embeddings]
                        ELSE st.docs[i]]
               ELSE Append(st.docs, Doc(id, body))]

\* A write that never replaces: what es.index does when no id is passed.
EsIndexAppend(st, id, body) ==
    [index |-> IF st.index = "absent" THEN "dynamic" ELSE st.index,
     docs  |-> Append(st.docs, Doc(id, body))]

\* es.index(index=index_name, id=..., body=...): create the document, or
\* replace the one that has this id.
EsIndex(st, id, body) ==
    [index |-> IF st.index = "absent" THEN "dynamic" ELSE st.index,
     docs  |-> Append(SelectSeq(st.docs, LAMBDA d : d.id # id), Doc(id, body))]

\* The knn_vector mapping refuses a vector whose length is not its dimension
\* (400, mapper_parsing_exception); an index without the mapping takes any.
EsIndexRejects(st, body) == st.index = "knn" /\ Len(body.embeddings) # dimension

\* A create that puts a fresh index in the place of the one that is there.
EsIndicesCreateAnew(st) == [index |-> "knn", docs |-> <<>>]

\* What the index holds for id: <<>> or the document.
DocOf(st, id) == SelectSeq(st.docs, LAMBDA d : d.id = id)

\* es.indices.create(index=index_name, body=index_settings)
EsIndicesCreate(st) == IF st.index = "absent" THEN [st EXCEPT !.index = "knn"] ELSE st

\* es.indices.delete(index=index_name, ignore=[400, 404])
EsIndicesDelete(st) == NoStore

\* The body the ingestion loop builds for the row at position idx (1-based
\* here): its name, and embeddings[label of the row].
IngestBody(ds, emb, lab, idx) ==
    [item_name_in_en_us |-> ds[idx].item_name_in_en_us, embeddings |-> emb[lab[idx]]]

CountId(docs, id) == Cardinality({i \in 1..Len(docs) : docs[i].id = id})

----------------------------------------------------------------------------
(* The knn query of search_products.                                       *)

\* "_source": {"exclude": ["embeddings"]}
Hit(d, q) ==
    [id |-> d.id, score |-> CosineSimil(d.embeddings, q),
     source |-> [item_name_in_en_us |-> d.item_name_in_en_us]]

RemoveAt(s, i) == SubSeq(s, 1, i - 1) \o SubSeq(s, i + 1, Len(s))

\* The first document, in document order, that no other document beats.
BestIndex(docs, q) ==
    CHOOSE i \in 1..Len(docs) :
        \A j \in 1..Len(docs) :
            /\ ~ScoreGt(CosineSimil(docs[j].embeddings, q), CosineSimil(docs[i].embeddings, q))
            /\ j < i => ScoreGt(CosineSimil(docs[i].embeddings, q),
                                CosineSimil(docs[j].embeddings, q))

\* A ranking that returns the documents as they lie in the index.
RECURSIVE RankUnsorted(_, _, _)
RankUnsorted(docs, q, n) ==
    IF n <= 0 \/ docs = <<>> THEN <<>>
    ELSE <<Hit(docs[1], q)>> \o RankUnsorted(Tail(docs), q, n - 1)

\* A ranking that stops one hit short.
RECURSIVE RankButOne(_, _, _)
RankButOne(docs, q, n) ==
    IF n <= 1 \/ docs = <<>> THEN <<>>
    ELSE LET i == BestIndex(docs, q)
         IN  <<Hit(docs[i], q)>> \o RankButOne(RemoveAt(docs, i), q, n - 1)

\* A ranking that ignores the requested size.
RECURSIVE RankAll(_, _, _)
RankAll(docs, q, n) ==
    IF docs = <<>> THEN <<>>
    ELSE LET i == BestIndex(docs, q)
         IN  <<Hit(docs[i], q)>> \o RankAll(RemoveAt(docs, i), q, n)

\* The n best documents by score, best first; equal scores in document order.
RECURSIVE Rank(_, _, _)
Rank(docs, q, n) ==
    IF n <= 0 \/ docs = <<>> THEN <<>>
    ELSE LET i == BestIndex(docs, q)
         IN  <<Hit(docs[i], q)>> \o Rank(RemoveAt(docs, i), q, n - 1)

\* A search that treats an index with nothing to search as a missing index.
EsSearchKnnNoDocs(st, visible, q, k) ==
    IF st.index = "absent" \/ visible = <<>> THEN [err |-> "NotFoundError", hits |-> <<>>]
    ELSE IF st.index # "knn" \/ k < 1 THEN [err |-> "RequestError", hits |-> <<>>]
    ELSE [err |-> None, hits |-> Rank(visible, q, k)]

\* A search that cuts the query vector to the index's dimension.
EsSearchKnnAnyLength(st, visible, q, k) ==
    IF st.index = "absent" THEN [err |-> "NotFoundError", hits |-> <<>>]
    ELSE IF st.index # "knn" \/ k < 1 THEN [err |-> "RequestError", hits |-> <<>>]
    ELSE [err |-> None, hits |-> Rank(visible, SubSeq(q, 1, dimension), k)]

\* es.search(index=index_name, body={"size": k, "query": {"knn": ...}}) on
\* the documents visible to search.  The index answers 404 when it does not
\* exist and 400 when the field is no knn_vector, k is below 1 or the query
\* vector's length is not the mapping's dimension.
EsSearchKnn(st, visible, q, k) ==
    IF st.index = "absent" THEN [err |-> "NotFoundError", hits |-> <<>>]
    ELSE IF st.index # "knn" \/ k < 1 \/ Len(q) # dimension
         THEN [err |-> "RequestError", hits |-> <<>>]
    ELSE [err |-> None, hits |-> Rank(visible, q, k)]

\* es.search(index=index_name, body={"query": {"match_all": {}}}, size=2)
EsSearchAll(st, visible, size) ==
    IF st.index = "absent" THEN [err |-> "NotFoundError", hits |-> <<>>]
    ELSE [err |-> None,
          hits |-> SubSeq(visible, 1, IF Len(visible) < size THEN Len(visible) ELSE size)]

\* dataset.query(f"item_id == '{item_id}'").index[0]: the first matching row.
FirstRow(ds, item_id) ==
    LET found == {i \in 1..Len(ds) : ds[i].item_id = item_id}
    IN  CHOOSE i \in found : \A j \in found : i <= j

----------------------------------------------------------------------------
VARIABLES
    dataset,      \* the merged data frame, a sequence of rows
    outputs,      \* the images the batch transform job left an output file for
    embeddings,   \* the embeddings list, one entry per row
    store,        \* the index and every document written to it
    searchable,   \* the documents the last refresh made visible to search
    ingest,       \* the last run of the ingestion cell: [pc, idx, resumedFrom]
    req,          \* the last query, from its input to its images
    written,      \* the ids written since the index was last deleted
    setup,        \* how the last run of the creation or clean-up cell ended, or None
    late,         \* the writes of timed-out es.index calls that are still on their way
    labels,       \* dataset.index: the label of each row, 1 for pandas' 0
    files,        \* the images that have a copy in ./data/images
    call          \* the last request an endpoint's inference code handled

vars == <<dataset, outputs, embeddings, store, searchable, ingest, req, written, setup, late,
          labels, files, call>>

\* The index of a merge: a RangeIndex, each row's label is its position.
RangeIndex(ds) == [i \in 1..Len(ds) |-> i]

IdleCall ==
    [pc |-> "idle", encode_type |-> None, content_type |-> None, accept |-> None,
     body |-> NoData, data |-> NoData, prediction |-> <<>>, response |-> <<>>,
     err |-> None]

IdleIngest == [pc |-> "idle", idx |-> 0, resumedFrom |-> -1]

IdleReq ==
    [pc |-> "IDLE", flow |-> None, image |-> None, text |-> None, k |-> 0,
     vector |-> <<>>, hits |-> <<>>, images |-> <<>>, err |-> None,
     encCalls |-> 0, storeCalls |-> 0]

\* A query as the caller holds it: an image file, a text, both or neither.
Queries ==
    {[image |-> p, text |-> None] : p \in Paths}
        \cup {[image |-> None, text |-> t] : t \in Texts}
        \cup {[image |-> "p1", text |-> "rose"], [image |-> None, text |-> None]}

Init ==
    /\ dataset \in Datasets
    /\ outputs = Paths
    /\ embeddings = LoadEmbeddings(dataset)
    /\ store = NoStore
    /\ searchable = <<>>
    /\ ingest = IdleIngest
    /\ req = IdleReq
    /\ written = {}
    /\ setup = None
    /\ late = {}
    /\ labels = RangeIndex(dataset)
    /\ files = Paths
    /\ call = IdleCall

\* A cell is running: the kernel takes no other cell until it ends.  The
\* record of a finished run is dropped when the next cell starts.
InQuery == req.pc \in {"RECEIVED", "ENCODING", "SEARCHING", "ENRICHING"}
Busy == ingest.pc = "running" \/ InQuery

----------------------------------------------------------------------------
(* The index cells.                                                        *)

\* es.indices.create(index=index_name, body=...): the index is made, or the
\* call raises RequestError (400, the index exists already).
CreateIndex ==
    /\ ~Busy
    /\ store' = EsIndicesCreate(store)
    /\ setup' = IF store.index = "absent" THEN "created" ELSE "RequestError"
    /\ ingest' = IdleIngest
    /\ req' = IdleReq
    /\ UNCHANGED <<dataset, labels, outputs, embeddings, files, call, late, searchable, written>>

\* A clean-up cell whose delete has no ignore list: the 404 is raised.
DeleteIndexStrict ==
    /\ ~Busy
    /\ store' = EsIndicesDelete(store)
    /\ searchable' = <<>>
    /\ written' = {}
    /\ ingest' = IdleIngest
    /\ req' = IdleReq
    /\ setup' = IF store.index = "absent" THEN "NotFoundError" ELSE "acknowledged"
    /\ UNCHANGED <<dataset, labels, outputs, embeddings, files, call, late>>

\* The clean-up cell: es.indices.delete(index=index_name, ignore=[400, 404])
\* returns the index's answer, the 404 of a missing index included.
DeleteIndex ==
    /\ ~Busy
    /\ store' = EsIndicesDelete(store)
    /\ searchable' = <<>>
    /\ written' = {}
    /\ ingest' = IdleIngest
    /\ req' = IdleReq
    /\ setup' = IF store.index = "absent" THEN "ignored 404" ELSE "acknowledged"
    /\ UNCHANGED <<dataset, labels, outputs, embeddings, files, call, late>>

\* A refresh that leaves the newest document out.
RefreshButLast ==
    /\ searchable # store.docs
    /\ searchable' = SubSeq(store.docs, 1, Len(store.docs) - 1)
    /\ UNCHANGED <<dataset, labels, outputs, embeddings, files, call, late, setup, store, ingest, req, written>>

\* The index's periodic refresh.
Refresh ==
    /\ searchable # store.docs
    /\ searchable' = store.docs
    /\ UNCHANGED <<dataset, labels, outputs, embeddings, files, call, late, setup, store, ingest, req, written>>

----------------------------------------------------------------------------
(* The ingestion cell: the loop over dataset.iterrows(), then the check.   *)
(* ingest.idx counts the rows written by this run; resumedFrom is the      *)
(* count at which the run before this one was interrupted, or -1.          *)

StartIngest ==
    /\ ~Busy
    /\ ingest' = [pc |-> "running", idx |-> 0, resumedFrom |-> IF ingest.pc = "interrupted" THEN ingest.idx ELSE -1]
    /\ req' = IdleReq
    /\ setup' = None
    /\ UNCHANGED <<dataset, labels, outputs, embeddings, files, call, late, store, searchable, written>>

\* One pass of the loop body.
IngestRow ==
    /\ ingest.pc = "running"
    /\ ingest.idx < Len(dataset)
    /\ labels[ingest.idx + 1] <= Len(embeddings)
    /\ LET idx == ingest.idx + 1
           record == dataset[idx]
           body == IngestBody(dataset, embeddings, labels, idx)
       IN  /\ ~EsIndexRejects(store, body)
           /\ store' = EsIndex(store, record.item_id, body)
           /\ written' = written \cup {record.item_id}
           /\ ingest' = [ingest EXCEPT !.idx = idx]
    /\ UNCHANGED <<dataset, labels, outputs, embeddings, files, call, late, setup, searchable, req>>

\* embeddings[idx] raises IndexError: the list has no entry at the row's label.
IngestRowNoEmbedding ==
    /\ ingest.pc = "running"
    /\ ingest.idx < Len(dataset)
    /\ labels[ingest.idx + 1] > Len(embeddings)
    /\ ingest' = [ingest EXCEPT !.pc = "indexerror"]
    /\ UNCHANGED <<dataset, labels, outputs, embeddings, files, call, late, setup, store, searchable, req, written>>

\* es.index raises RequestError: the mapping refuses the row's vector.
IngestRowRejected ==
    /\ ingest.pc = "running"
    /\ ingest.idx < Len(dataset)
    /\ labels[ingest.idx + 1] <= Len(embeddings)
    /\ EsIndexRejects(store, IngestBody(dataset, embeddings, labels, ingest.idx + 1))
    /\ ingest' = [ingest EXCEPT !.pc = "rejected"]
    /\ UNCHANGED <<dataset, labels, outputs, embeddings, files, call, late, setup, store, searchable, req, written>>

\* The kernel is interrupted, or es.index raises (connection lost, timeout).
InterruptIngest ==
    /\ ingest.pc = "running"
    /\ ingest.idx < Len(dataset)
    /\ ingest' = [ingest EXCEPT !.pc = "interrupted"]
    /\ UNCHANGED <<dataset, labels, outputs, embeddings, files, call, late, setup, store, searchable, req, written>>

\* es.index raises ConnectionTimeout after the client's 60 seconds while its
\* request is still on its way to the index.
IngestTimesOut ==
    /\ ingest.pc = "running"
    /\ ingest.idx < Len(dataset)
    /\ labels[ingest.idx + 1] <= Len(embeddings)
    /\ Cardinality(late) < MaxLate
    /\ LET idx == ingest.idx + 1
       IN  late' = late \cup {[id |-> dataset[idx].item_id,
                               body |-> IngestBody(dataset, embeddings, labels, idx)]}
    /\ ingest' = [ingest EXCEPT !.pc = "interrupted"]
    /\ UNCHANGED <<dataset, labels, outputs, embeddings, files, call, setup, store, searchable, req, written>>

\* The index applies the write of a call that timed out, whatever the
\* notebook is doing by then.
LateWriteLands ==
    /\ \E w \in late :
          /\ late' = late \ {w}
          /\ IF EsIndexRejects(store, w.body)
             THEN UNCHANGED <<store, written>>
             ELSE /\ store' = EsIndex(store, w.id, w.body)
                  /\ written' = written \cup {w.id}
    /\ UNCHANGED <<dataset, labels, outputs, embeddings, files, call, setup, searchable, ingest, req>>

\* After the loop: the match_all search and its assert.
VerifyIngest ==
    /\ ingest.pc = "running"
    /\ ingest.idx = Len(dataset)
    /\ LET res == EsSearchAll(store, searchable, 2)
       IN  ingest' = [ingest EXCEPT !.pc =
                        IF res.err = None /\ Len(res.hits) > 0 THEN "done" ELSE "failed"]
    /\ UNCHANGED <<dataset, labels, outputs, embeddings, files, call, late, setup, store, searchable, req, written>>

----------------------------------------------------------------------------
(* The query cells: encode_image or encode_name, then search_products.     *)
(* req.pc names where the request stands: RECEIVED before the endpoint is  *)
(* invoked, ENCODING while predict runs, SEARCHING while es.search runs,   *)
(* ENRICHING in the loop over the hits, COMPLETE once the images are       *)
(* returned, ERROR once an exception has left the cell.                    *)

\* The caller runs the image cell or the text cell; nothing in the notebook
\* looks at whether the other input is there, or whether any is.
NewQuery ==
    /\ ~Busy
    /\ req.pc = "IDLE"
    /\ \E qry \in Queries, k \in 0..MaxK, flow \in {"IMAGE", "TEXT"} :
          /\ (qry.image # None /\ qry.text = None) => flow = "IMAGE"
          /\ (qry.text # None /\ qry.image = None) => flow = "TEXT"
          /\ req' = [IdleReq EXCEPT !.pc = "RECEIVED", !.flow = flow,
                                    !.image = qry.image, !.text = qry.text, !.k = k]
    /\ ingest' = IdleIngest
    /\ setup' = None
    /\ UNCHANGED <<dataset, labels, outputs, embeddings, files, call, late, store, searchable, written>>

\* The query cell has ended and its output is left behind.
EndQuery ==
    /\ req.pc \in {"COMPLETE", "ERROR"}
    /\ req' = IdleReq
    /\ UNCHANGED <<dataset, labels, outputs, embeddings, files, call, late, setup, store, searchable, ingest, written>>

\* An exception that is caught and turned into an empty result.
FailSoft(error) == [req EXCEPT !.pc = "COMPLETE", !.err = error, !.images = <<>>]

\* An exception that is caught around the loop, which returns what it has.
FailKeepsImages(error) == [req EXCEPT !.pc = "ERROR", !.err = error]

\* An exception leaves the cell: the request ends with the error and no images.
Fail(error) == [req EXCEPT !.pc = "ERROR", !.err = error, !.images = <<>>]

\* encode_image: open(file_name, "rb") raises before anything is sent.
ReadImageFails ==
    /\ req.pc = "RECEIVED"
    /\ req.flow = "IMAGE"
    /\ req' = Fail("FileNotFoundError")
    /\ UNCHANGED <<dataset, labels, outputs, embeddings, files, call, late, setup, store, searchable, ingest, written>>

\* image_predictor.predict(payload) or text_predictor.predict({"inputs": ...})
InvokeEncoder ==
    /\ req.pc = "RECEIVED"
    /\ req.flow = "IMAGE" =>
          (IF req.image = None THEN DefaultFile ELSE req.image) \in files
    /\ req' = [req EXCEPT !.pc = "ENCODING", !.encCalls = @ + 1]
    /\ UNCHANGED <<dataset, labels, outputs, embeddings, files, call, late, setup, store, searchable, ingest, written>>

\* predict raises and the cell goes on to search_products all the same.
EncoderFailsThenSearches ==
    /\ req.pc = "ENCODING"
    /\ req' = [req EXCEPT !.pc = "SEARCHING", !.err = "ModelError", !.storeCalls = @ + 1]
    /\ UNCHANGED <<dataset, labels, outputs, embeddings, files, call, late, setup, store, searchable, ingest, written>>

\* predict raises: the endpoint is gone, the model fails, the call times out.
EncoderFails ==
    /\ req.pc = "ENCODING"
    /\ req' = Fail("ModelError")
    /\ UNCHANGED <<dataset, labels, outputs, embeddings, files, call, late, setup, store, searchable, ingest, written>>

\* What predict answers for the request's input: res[0].
Encoded(r) ==
    IF r.flow = "IMAGE"
    THEN ClipImage(IF r.image = None THEN DefaultFile ELSE r.image)
    ELSE encode_name(r.text)

\* predict returns; search_products builds the body and calls es.search.
EncoderReturns ==
    /\ req.pc = "ENCODING"
    /\ req' = [req EXCEPT !.pc = "SEARCHING", !.vector = Encoded(req),
                          !.storeCalls = @ + 1]
    /\ UNCHANGED <<dataset, labels, outputs, embeddings, files, call, late, setup, store, searchable, ingest, written>>

\* predict returns from an endpoint whose MODEL_NAME is not RN50.
EncoderReturnsOther ==
    /\ req.pc = "ENCODING"
    /\ req' = [req EXCEPT !.pc = "SEARCHING", !.vector = OtherModel(Encoded(req)),
                          !.storeCalls = @ + 1]
    /\ UNCHANGED <<dataset, labels, outputs, embeddings, files, call, late, setup, store, searchable, ingest, written>>

\* es.search raises and is called again from an except branch.
SearchRetried ==
    /\ req.pc = "SEARCHING"
    /\ req.storeCalls < 2
    /\ req' = [req EXCEPT !.storeCalls = @ + 1]
    /\ UNCHANGED <<dataset, labels, outputs, embeddings, files, call, late, setup, store, searchable, ingest, written>>

\* es.search raises and the cell starts the request over from its first line.
SearchStartsOver ==
    /\ req.pc = "SEARCHING"
    /\ req' = [IdleReq EXCEPT !.pc = "RECEIVED", !.flow = req.flow,
                              !.image = req.image, !.text = req.text, !.k = req.k]
    /\ UNCHANGED <<dataset, labels, outputs, embeddings, files, call, late, setup, store, searchable, ingest, written>>

\* es.search raises ConnectionError or ConnectionTimeout.
SearchFails ==
    /\ req.pc = "SEARCHING"
    /\ req' = Fail("ConnectionError")
    /\ UNCHANGED <<dataset, labels, outputs, embeddings, files, call, late, setup, store, searchable, ingest, written>>

\* es.search answers: the hits, or the index's 4xx as an exception.
SearchReturns ==
    /\ req.pc = "SEARCHING"
    /\ LET res == EsSearchKnn(store, searchable, req.vector, req.k)
       IN  req' = IF res.err = None
                  THEN [req EXCEPT !.pc = "ENRICHING", !.hits = res.hits]
                  ELSE Fail(res.err)
    /\ UNCHANGED <<dataset, labels, outputs, embeddings, files, call, late, setup, store, searchable, ingest, written>>

\* get_image_from_item_id(id_) for the next hit, which downloads the image
\* into ./data/images, and images.append(image).
EnrichedImage(ds, hit) ==
    LET item_idx == FirstRow(ds, hit.id)
    IN  [image |-> ds[item_idx].path,
         name_and_score |-> <<hit.score, ds[item_idx].item_name_in_en_us>>]

EnrichHit ==
    /\ req.pc = "ENRICHING"
    /\ Len(req.images) < Len(req.hits)
    /\ LET hit == req.hits[Len(req.images) + 1]
       IN  /\ \E i \in 1..Len(dataset) : dataset[i].item_id = hit.id
           /\ req' = [req EXCEPT !.images = Append(@, EnrichedImage(dataset, hit))]
           /\ files' = files \cup {EnrichedImage(dataset, hit).image}
    /\ UNCHANGED <<dataset, labels, outputs, embeddings, call, late, setup, store, searchable, ingest, written>>

\* s3down.download or Image.open raises inside get_image_from_item_id.
DownloadFails ==
    /\ req.pc = "ENRICHING"
    /\ Len(req.images) < Len(req.hits)
    /\ req' = Fail("DownloadError")
    /\ UNCHANGED <<dataset, labels, outputs, embeddings, files, call, late, setup, store, searchable, ingest, written>>

\* return images
ReturnImages ==
    /\ req.pc = "ENRICHING"
    /\ Len(req.images) = Len(req.hits)
    /\ req' = [req EXCEPT !.pc = "COMPLETE"]
    /\ UNCHANGED <<dataset, labels, outputs, embeddings, files, call, late, setup, store, searchable, ingest, written>>

----------------------------------------------------------------------------
Next ==
    \/ CreateIndex
    \/ DeleteIndex
    \/ Refresh
    \/ StartIngest
    \/ IngestRow
    \/ InterruptIngest
    \/ VerifyIngest
    \/ NewQuery
    \/ EndQuery
    \/ ReadImageFails
    \/ InvokeEncoder
    \/ EncoderFails
    \/ EncoderReturns
    \/ SearchFails
    \/ SearchReturns
    \/ EnrichHit
    \/ DownloadFails
    \/ ReturnImages

Spec == Init /\ [][Next]_vars

----------------------------------------------------------------------------
(* The notebook with MODEL_NAME changed for the endpoints, over the output *)
(* of a batch transform that ran RN50 or the other model and that left an  *)
(* output for some of the images only.  Every search is refused, so the    *)
(* steps after the search are not part of it.                              *)

InitSkew ==
    /\ dataset \in Datasets
    /\ outputs \in SUBSET Paths
    /\ \E other \in BOOLEAN : embeddings = LoadEmbeddingsFrom(dataset, outputs, other)
    /\ store = NoStore
    /\ searchable = <<>>
    /\ ingest = IdleIngest
    /\ req = IdleReq
    /\ written = {}
    /\ setup = None
    /\ late = {}
    /\ labels = RangeIndex(dataset)
    /\ files = Paths
    /\ call = IdleCall

NextSkew ==
    \/ CreateIndex
    \/ DeleteIndex
    \/ Refresh
    \/ StartIngest
    \/ IngestRow
    \/ IngestRowNoEmbedding
    \/ IngestRowRejected
    \/ InterruptIngest
    \/ VerifyIngest
    \/ NewQuery
    \/ EndQuery
    \/ ReadImageFails
    \/ InvokeEncoder
    \/ EncoderFails
    \/ EncoderReturnsOther
    \/ SearchFails
    \/ SearchReturns

SkewSpec == InitSkew /\ [][NextSkew]_vars

----------------------------------------------------------------------------
(* The index and ingestion cells when es.index can time out at the client  *)
(* with its write still to be applied: the next run's writes then race     *)
(* with it.                                                                *)

NextTimeout ==
    \/ CreateIndex
    \/ DeleteIndex
    \/ Refresh
    \/ StartIngest
    \/ IngestRow
    \/ InterruptIngest
    \/ IngestTimesOut
    \/ LateWriteLands
    \/ VerifyIngest

TimeoutSpec == Init /\ [][NextTimeout]_vars

----------------------------------------------------------------------------
(* The notebook over an index that keeps refreshing: the index refreshes   *)
(* on its own schedule (index_settings leaves refresh_interval at the      *)
(* service's default), so a refresh that is due is not put off for ever.   *)

LiveSpec == Init /\ [][Next]_vars /\ WF_vars(Refresh)

----------------------------------------------------------------------------
(* A query cell that keeps running: the kernel runs the statements of a    *)
(* cell one after the other, and each blocking call comes back, with an    *)
(* answer or with an exception: es.search within the client's timeout=60,  *)
(* predict and the S3 download within the socket timeouts of the AWS SDK.  *)

QueryStep ==
    \/ ReadImageFails
    \/ InvokeEncoder
    \/ EncoderFails
    \/ EncoderReturns
    \/ SearchFails
    \/ SearchReturns
    \/ EnrichHit
    \/ DownloadFails
    \/ ReturnImages

QueryLiveSpec == Init /\ [][Next]_vars /\ WF_vars(QueryStep)

----------------------------------------------------------------------------
(* The notebook over its image directory.  get_image_from_item_id leaves   *)
(* every image it downloads in ./data/images, and encode_image opens the   *)
(* file it is given, or its default, from there.  The directory starts     *)
(* empty (mkdir -p data) and the clean-up cell removes it.  In the other   *)
(* specifications every image already has its copy there.                  *)

InitDisk ==
    /\ dataset \in Datasets
    /\ outputs = Paths
    /\ embeddings = LoadEmbeddings(dataset)
    /\ store = NoStore
    /\ searchable = <<>>
    /\ ingest = IdleIngest
    /\ req = IdleReq
    /\ written = {}
    /\ setup = None
    /\ late = {}
    /\ labels = RangeIndex(dataset)
    /\ files = {}
    /\ call = IdleCall

\* image, item_name = get_image_from_item_id(item_id=...): the cell that
\* fetches a product's image before it is shown or encoded.
FetchImage ==
    /\ ~Busy
    /\ \E i \in 1..Len(dataset) :
          files' = files \cup {dataset[FirstRow(dataset, dataset[i].item_id)].path}
    /\ UNCHANGED <<dataset, labels, outputs, embeddings, call, late, setup, store,
                   searchable, ingest, req, written>>

\* encode_image: open(file_name, "rb") raises, ./data/images has no such file.
ReadImageMissing ==
    /\ req.pc = "RECEIVED"
    /\ req.flow = "IMAGE"
    /\ (IF req.image = None THEN DefaultFile ELSE req.image) \notin files
    /\ req' = Fail("FileNotFoundError")
    /\ UNCHANGED <<dataset, labels, outputs, embeddings, files, call, late, setup, store,
                   searchable, ingest, written>>

\* The clean-up cell: es.indices.delete(...) and then !rm -rf data/
CleanUp ==
    /\ ~Busy
    /\ store' = EsIndicesDelete(store)
    /\ searchable' = <<>>
    /\ written' = {}
    /\ ingest' = IdleIngest
    /\ req' = IdleReq
    /\ setup' = IF store.index = "absent" THEN "ignored 404" ELSE "acknowledged"
    /\ files' = {}
    /\ UNCHANGED <<dataset, labels, outputs, embeddings, call, late>>

NextDisk ==
    \/ CreateIndex
    \/ CleanUp
    \/ Refresh
    \/ StartIngest
    \/ IngestRow
    \/ VerifyIngest
    \/ FetchImage
    \/ NewQuery
    \/ EndQuery
    \/ ReadImageMissing
    \/ InvokeEncoder
    \/ EncoderReturns
    \/ SearchReturns
    \/ EnrichHit
    \/ ReturnImages

DiskSpec == InitDisk /\ [][NextDisk]_vars

----------------------------------------------------------------------------
(* The load loop and the ingestion cell over a data frame whose index is   *)
(* not the RangeIndex of the merge: rows were filtered out, sorted or      *)
(* sampled after it, and each row kept its label.  The load loop appends   *)
(* one embedding per row in row order; the ingestion loop reads            *)
(* embeddings[idx] with idx the row's label.                               *)

\* The indexes a data frame of n rows can carry: n labels, no two the same.
Labelings(n) ==
    {lab \in [1..n -> 1..(MaxRows + 1)] : \A i, j \in 1..n : i # j => lab[i] # lab[j]}

InitLabel ==
    /\ dataset \in Datasets
    /\ labels \in Labelings(Len(dataset))
    /\ outputs = Paths
    /\ embeddings = LoadEmbeddings(dataset)
    /\ store = NoStore
    /\ searchable = <<>>
    /\ ingest = IdleIngest
    /\ req = IdleReq
    /\ written = {}
    /\ setup = None
    /\ late = {}
    /\ files = Paths
    /\ call = IdleCall

NextLabel ==
    \/ CreateIndex
    \/ DeleteIndex
    \/ Refresh
    \/ StartIngest
    \/ IngestRow
    \/ IngestRowNoEmbedding
    \/ InterruptIngest
    \/ VerifyIngest

LabelSpec == InitLabel /\ [][NextLabel]_vars

----------------------------------------------------------------------------
(* An endpoint serving one request: the container hands the body and its   *)
(* content type to input_fn, the result to predict_fn, the prediction and  *)
(* the accepted type to output_fn; an exception in any of them ends the    *)
(* request with an error and no response body.  The two endpoints differ   *)
(* in ENCODE_TYPE.  call.pc names the function that is to run next.        *)

Invoke ==
    /\ call.pc = "idle"
    /\ \E et \in {"TEXT", "IMAGE"}, ct \in ContentTypes, b \in RequestBodies,
          acc \in {"application/json", "text/csv"} :
          call' = [IdleCall EXCEPT !.pc = "input_fn", !.encode_type = et,
                                   !.content_type = ct, !.accept = acc, !.body = b]
    /\ UNCHANGED <<dataset, labels, outputs, embeddings, files, late, setup, store,
                   searchable, ingest, req, written>>

\* The endpoint is deleted, or model_fn could not load MODEL_NAME.
ModelUnavailable ==
    /\ call.pc = "input_fn"
    /\ call' = [call EXCEPT !.pc = "failed", !.err = "ModelError"]
    /\ UNCHANGED <<dataset, labels, outputs, embeddings, files, late, setup, store,
                   searchable, ingest, req, written>>

InputFn ==
    /\ call.pc = "input_fn"
    /\ LET res == input_fn(call.body, call.content_type)
       IN  call' = IF res.err = None
                   THEN [call EXCEPT !.pc = "predict_fn", !.data = res.data]
                   ELSE [call EXCEPT !.pc = "failed", !.err = res.err]
    /\ UNCHANGED <<dataset, labels, outputs, embeddings, files, late, setup, store,
                   searchable, ingest, req, written>>

PredictFn ==
    /\ call.pc = "predict_fn"
    /\ LET res == predict_fn(call.data, call.encode_type)
       IN  call' = IF res.err = None
                   THEN [call EXCEPT !.pc = "output_fn", !.prediction = res.prediction]
                   ELSE [call EXCEPT !.pc = "failed", !.err = res.err]
    /\ UNCHANGED <<dataset, labels, outputs, embeddings, files, late, setup, store,
                   searchable, ingest, req, written>>

OutputFn ==
    /\ call.pc = "output_fn"
    /\ LET res == output_fn(call.prediction, call.accept)
       IN  call' = IF res.err = None
                   THEN [call EXCEPT !.pc = "answered", !.response = res.response]
                   ELSE [call EXCEPT !.pc = "failed", !.err = res.err]
    /\ UNCHANGED <<dataset, labels, outputs, embeddings, files, late, setup, store,
                   searchable, ingest, req, written>>

\* The response has gone out; the endpoint waits for the next request.
CallEnds ==
    /\ call.pc \in {"answered", "failed"}
    /\ call' = IdleCall
    /\ UNCHANGED <<dataset, labels, outputs, embeddings, files, late, setup, store,
                   searchable, ingest, req, written>>

NextEndpoint ==
    \/ Invoke
    \/ ModelUnavailable
    \/ InputFn
    \/ PredictFn
    \/ OutputFn
    \/ CallEnds

EndpointSpec == Init /\ [][NextEndpoint]_vars

----------------------------------------------------------------------------
(* Properties.                                                             *)

CorpusIds(ds) == {ds[i].item_id : i \in 1..Len(ds)}

\* Every (id, body) a caller can hand to es.index.
Bodies ==
    {[item_name_in_en_us |-> NameOf(p), embeddings |-> ClipImage(p)] : p \in Paths}

\* C1: the index holds at most one document per item id, in what is written
\* and in what is visible, and exactly one for every id written since the index
\* was last deleted: writing an id again replaces its document.
OneRecordPerId ==
    \A id \in ItemIds :
        /\ CountId(store.docs, id) <= 1
        /\ CountId(searchable, id) <= 1
        /\ id \in written => CountId(store.docs, id) = 1

\* C1 witness: the loop has written the same id twice and one document is left.
ReingestedId ==
    /\ ingest.idx >= 2
    /\ dataset[1].item_id = dataset[2].item_id
    /\ dataset[1].path # dataset[2].path
    /\ CountId(store.docs, dataset[1].item_id) = 1

\* C2: when a run that follows an interrupted run has gone through the whole
\* loop, the index holds exactly one document for every id of the dataset and
\* no document twice.
ResumedRunComplete ==
    (ingest.resumedFrom >= 0 /\ ingest.pc \in {"done", "failed"})
        => \A id \in ItemIds :
              CountId(store.docs, id) = IF id \in CorpusIds(dataset) THEN 1 ELSE 0

\* C2 witness: a run interrupted after its first write was run again to the end.
ResumedAfterPartialRun ==
    /\ ingest.resumedFrom = 1
    /\ ingest.pc = "done"
    /\ Len(dataset) = 2

\* C3: in every state of the index, writing the same (id, body) a second time
\* changes nothing: the index after two writes equals the index after one, and
\* so does the answer to the knn query of the request at hand once both are
\* refreshed.
UpsertIdempotent ==
    \A id \in ItemIds, body \in Bodies :
        LET once  == EsIndex(store, id, body)
            twice == EsIndex(once, id, body)
        IN  /\ twice = once
            /\ req.vector # <<>> =>
                  EsSearchKnn(twice, twice.docs, req.vector, req.k)
                      = EsSearchKnn(once, once.docs, req.vector, req.k)

\* C3 witness: the loop has just written the same row twice in a row, over an
\* index that holds another document too.
SameRowWrittenTwice ==
    /\ ingest.pc = "running"
    /\ ingest.idx = 2
    /\ dataset[1] = dataset[2]
    /\ store.docs # <<>>
    /\ store = EsIndex(store, dataset[2].item_id, IngestBody(dataset, embeddings, labels, 2))

\* C4: a query with k >= 1 never gets more than k hits from the index, and
\* search_products never returns more than k images.
AtMostK ==
    req.k >= 1 => (Len(req.hits) <= req.k /\ Len(req.images) <= req.k)

\* C4 witness: a query with k = 1 completed with one image while two documents
\* were visible, and the one returned is not the first in the index.
TruncatedToK ==
    /\ req.pc = "COMPLETE"
    /\ req.k = 1
    /\ Len(req.images) = 1
    /\ Len(searchable) = 2
    /\ req.hits[1].id = searchable[2].id

\* The hits come best first.
SortedByScore(hits) ==
    \A i, j \in 1..Len(hits) : i < j => ~ScoreGt(hits[j].score, hits[i].score)

\* The hits come best first and, among equal scores, lowest id first.
SortedByScoreThenId(hits) ==
    \A i, j \in 1..Len(hits) :
        i < j => \/ ScoreGt(hits[i].score, hits[j].score)
                 \/ ScoreEq(hits[i].score, hits[j].score) /\ hits[i].id < hits[j].id

\* C5 as claimed: the hits of a knn query are ordered by descending cosine
\* similarity, records of equal similarity in ascending id order.
HitsByScoreThenId == SortedByScoreThenId(req.hits)

\* C5 as amended: the hits of a knn query are ordered by descending cosine
\* similarity to the query vector (the order among records of equal similarity
\* is the index's own, not the order of their ids).
HitsByScore == SortedByScore(req.hits)

\* C5 witness: two hits, the better one first, the two not in the order in
\* which the index holds them.
RankedHits ==
    /\ req.pc = "ENRICHING"
    /\ Len(req.hits) = 2
    /\ ScoreGt(req.hits[1].score, req.hits[2].score)
    /\ Len(searchable) = 2
    /\ req.hits[1].id = searchable[2].id

\* C6: a knn query with k >= 1 that the index answers while no document is
\* visible gets an empty list of hits and no error, and the request then ends
\* COMPLETE with no images.
EmptyIndexQuery ==
    [][/\ (/\ req.pc = "SEARCHING"
           /\ req'.pc # "SEARCHING"
           /\ req'.err # "ConnectionError"
           /\ store.index = "knn"
           /\ searchable = <<>>
           /\ req.k >= 1)
          => (req'.pc = "ENRICHING" /\ req'.hits = <<>> /\ req'.err = None)
       /\ (req.pc = "ENRICHING" /\ req.hits = <<>> /\ req' # req)
          => (req'.pc = "COMPLETE" /\ req'.images = <<>> /\ req'.err = None)]_vars

\* C6 witness: a query with k >= 1 on the empty knn index ended COMPLETE with
\* no hits and no images.
EmptyResult ==
    /\ req.pc = "COMPLETE"
    /\ req.k >= 1
    /\ store = [index |-> "knn", docs |-> <<>>]
    /\ req.hits = <<>>
    /\ req.images = <<>>

\* The visible documents whose stored embedding is the query vector.
OwnRecords(visible, q) == {i \in 1..Len(visible) : visible[i].embeddings = q}

\* C7 as claimed: when the index answers a query whose vector is the stored
\* embedding of a visible item, the first hit has that item's id and the
\* maximum score.
SelfRetrievalById ==
    [][(req.pc = "SEARCHING" /\ req'.pc = "ENRICHING")
          => \A i \in OwnRecords(searchable, req.vector) :
                /\ req'.hits # <<>>
                /\ req'.hits[1].id = searchable[i].id
                /\ MaxScore(req'.hits[1].score)]_vars

\* C7 as amended: when the index answers a query whose vector is the stored
\* embedding of a visible item, the first hit has the maximum score, and its id
\* is the item's id or the id of another visible item whose embedding has
\* cosine similarity 1 to the item's.
SelfRetrieval ==
    [][(req.pc = "SEARCHING" /\ req'.pc = "ENRICHING")
          => \A i \in OwnRecords(searchable, req.vector) :
                /\ req'.hits # <<>>
                /\ MaxScore(req'.hits[1].score)
                /\ \/ req'.hits[1].id = searchable[i].id
                   \/ \E j \in 1..Len(searchable) :
                         /\ searchable[j].id = req'.hits[1].id
                         /\ searchable[j].id # searchable[i].id
                         /\ MaxScore(CosineSimil(searchable[j].embeddings,
                                                 searchable[i].embeddings))]_vars

\* C7 witness: an image query found its own item first with the maximum score,
\* ahead of a different item that lies before it in the index.
FoundItself ==
    /\ req.pc = "ENRICHING"
    /\ req.flow = "IMAGE"
    /\ Len(req.hits) = 2
    /\ Len(searchable) = 2
    /\ searchable[2].embeddings = req.vector
    /\ req.hits[1].id = searchable[2].id
    /\ MaxScore(req.hits[1].score)
    /\ ~MaxScore(req.hits[2].score)

\* The caller's query has both an image and a text, or neither.
BothOrNeither(r) == (r.image = None) <=> (r.text = None)

\* C8: a request with both inputs, or with neither, ends in ERROR with
\* InvalidQuery straight from RECEIVED, with no endpoint call and no index call.
InvalidQueryRejected ==
    (req.pc \notin {"IDLE", "RECEIVED"} /\ BothOrNeither(req))
        => /\ req.pc = "ERROR"
           /\ req.err = "InvalidQuery"
           /\ req.encCalls = 0
           /\ req.storeCalls = 0

\* C9: a request with k < 1 ends in ERROR with InvalidQuery before any remote
\* call: no endpoint call and no index call is made for it.
KBelowOneRejected ==
    (req.pc \notin {"IDLE", "RECEIVED"} /\ req.k < 1)
        => /\ req.pc = "ERROR"
           /\ req.err = "InvalidQuery"
           /\ req.encCalls = 0
           /\ req.storeCalls = 0

\* The steps of one request, without and with a failure while ENRICHING.
Forward ==
    {<<"RECEIVED", "ENCODING">>, <<"ENCODING", "SEARCHING">>,
     <<"SEARCHING", "ENRICHING">>, <<"ENRICHING", "COMPLETE">>}
ErrorFromFirstThree ==
    {<<"RECEIVED", "ERROR">>, <<"ENCODING", "ERROR">>, <<"SEARCHING", "ERROR">>}
\* A finished request is only ever replaced: by a new one, or by none.
Replaced(r) == r.pc \in {"IDLE", "RECEIVED"} /\ r.encCalls = 0 /\ r.storeCalls = 0

StepsWithin(allowed) ==
    req'.pc # req.pc
        => IF req.pc \in {"IDLE", "COMPLETE", "ERROR"}
           THEN Replaced(req')
           ELSE <<req.pc, req'.pc>> \in allowed

\* C10 as claimed: a request moves only along RECEIVED, ENCODING, SEARCHING,
\* ENRICHING, COMPLETE; ERROR is terminal and entered only from RECEIVED,
\* ENCODING or SEARCHING, so from ENRICHING the only step is to COMPLETE.
RequestSteps == [][StepsWithin(Forward \cup ErrorFromFirstThree)]_vars

\* C10 as amended: a request moves only along RECEIVED, ENCODING, SEARCHING,
\* ENRICHING, COMPLETE; ERROR is terminal and entered only from RECEIVED,
\* ENCODING, SEARCHING or ENRICHING.
RequestStepsWithEnrichError ==
    [][StepsWithin(Forward \cup ErrorFromFirstThree \cup {<<"ENRICHING", "ERROR">>})]_vars

\* C10 witness: a request failed while ENRICHING, after one hit was enriched.
FailedWhileEnriching ==
    /\ req.pc = "ERROR"
    /\ req.err = "DownloadError"
    /\ req.encCalls = 1
    /\ req.storeCalls = 1
    /\ Len(req.hits) = 2

\* C11: a request that failed hands the caller its error and no images at all;
\* a request that completed hands the caller one image for every hit and no
\* error; images exist nowhere else than in the loop or in a completed result.
AllOrNothing ==
    /\ req.pc = "ERROR" => (req.err # None /\ req.images = <<>>)
    /\ req.pc = "COMPLETE" => (req.err = None /\ Len(req.images) = Len(req.hits))
    /\ req.images # <<>> => req.pc \in {"ENRICHING", "COMPLETE"}

\* C11 witness: the index answered with two hits for k = 2, the download for
\* one of them failed, and the caller got the error and no image.
NothingAfterFailure ==
    /\ req.pc = "ERROR"
    /\ req.err = "DownloadError"
    /\ req.k = 2
    /\ Len(req.hits) = 2
    /\ req.images = <<>>

CreateOnExistingIndex ==
    [][(CreateIndex /\ store.index # "absent")
          => (/\ setup' = "RequestError"
              /\ store' = store
              /\ searchable' = searchable
              /\ written' = written)]_vars

\* C16 witness: the creation cell was run again over the knn index that holds
\* documents, and ended with the error.
CreatedTwice ==
    /\ setup = "RequestError"
    /\ store.index = "knn"
    /\ store.docs # <<>>

\* C13: when a run of the ingestion cell has ended by itself, every row whose
\* image the batch transform did encode has its document in the index, whatever
\* became of the other rows.
BatchSurvivesItemFailure ==
    ingest.pc \in {"done", "failed", "indexerror"} =>
        \A i \in 1..Len(dataset) :
            dataset[i].path \in outputs => CountId(store.docs, dataset[i].item_id) = 1

\* C14: every document of the index has an embedding of the index's dimension.
StoredVectorsHaveDimension ==
    \A i \in 1..Len(store.docs) : Len(store.docs[i].embeddings) = dimension

\* C15: a search whose query vector has not the index's dimension ends the
\* request in ERROR with no hit and no image, whatever the index holds; the
\* error is the index's 400 whenever the index exists and was reached.
WrongLengthQueryFails ==
    [][(req.pc = "SEARCHING" /\ Len(req.vector) # dimension /\ req' # req)
          => (/\ req'.pc = "ERROR"
              /\ req'.hits = <<>>
              /\ req'.images = <<>>
              /\ req'.err \in {"RequestError", "NotFoundError", "ConnectionError"}
              /\ (store.index # "absent" /\ req'.err # "ConnectionError")
                    => req'.err = "RequestError")]_vars

\* C15 witness: a query with k >= 1 and a vector one component too long was
\* refused by the knn index while documents were visible in it.
WrongLengthRefused ==
    /\ req.pc = "ERROR"
    /\ req.err = "RequestError"
    /\ req.k >= 1
    /\ Len(req.vector) = dimension + 1
    /\ store.index = "knn"
    /\ searchable # <<>>

\* C17 (as stated, for an id): a delete issued while some id is not in the
\* index leaves the index as it is.
DeleteOfMissingId ==
    [][DeleteIndex =>
          \A id \in ItemIds : CountId(store.docs, id) = 0 => store' = store]_vars

\* C17: the one delete of the program, that of the whole index, is
\* idempotent: on a missing index it raises nothing and leaves everything as
\* it is, and a second delete leaves what the first left.
IndexDeleteIdempotent ==
    [][DeleteIndex =>
          (/\ setup' \in {"acknowledged", "ignored 404"}
           /\ store.index = "absent" =>
                 (setup' = "ignored 404" /\ store' = store /\ searchable' = searchable)
           /\ EsIndicesDelete(store') = store'
           /\ store' = NoStore)]_vars

\* C17 witness: the clean-up cell was run while there was no index, and ended
\* without an error.
DeletedMissingIndex ==
    /\ setup = "ignored 404"
    /\ store = NoStore

\* The ids whose document is not the same in the two indexes.
Touched(st1, st2) == {id \in ItemIds : DocOf(st1, id) # DocOf(st2, id)}

\* The step applies a write for id: the loop's next row, or a late one.
WriteApplied(id) ==
    \/ /\ ingest'.idx = ingest.idx + 1
       /\ dataset[ingest'.idx].item_id = id
    \/ \E w \in late \ late' : w.id = id

\* C18 (as stated, delete included): every write and every delete changes the
\* document of one id at most.
OneIdPerStep == [][Cardinality(Touched(store, store')) <= 1]_vars

\* C18: every write the index applies, in whatever order the loop's writes and
\* the late ones arrive, changes the document of the id written and of no
\* other id; only the delete of the whole index changes more.
WritesTouchOneId ==
    [][store'.index # "absent" =>
          /\ Cardinality(Touched(store, store')) <= 1
          /\ \A id \in Touched(store, store') : WriteApplied(id)]_vars

\* C18 witness: while a run was under way, after it had written both rows, the
\* late write for the first row's id arrived; both documents are there, the
\* other id's as the run wrote it.
LateWriteBesideOtherId ==
    /\ ingest.pc = "running"
    /\ ingest.idx = 2
    /\ Len(dataset) = 2
    /\ dataset[1].item_id # dataset[2].item_id
    /\ Len(store.docs) = 2
    /\ store.docs[1] = Doc(dataset[2].item_id, IngestBody(dataset, embeddings, labels, 2))
    /\ store.docs[2].id = dataset[1].item_id

\* C19: whatever the order in which the writes for one id are applied, the
\* index holds one document for the id at most, that document is the whole
\* body of one row of that id (never the name of one with the embedding of
\* another), and a write that is applied leaves exactly its own body.
LastWriteWins ==
    [][\A id \in ItemIds :
          /\ CountId(store'.docs, id) <= 1
          /\ DocOf(store', id) # <<>> =>
                \E i \in 1..Len(dataset) :
                    /\ dataset[i].item_id = id
                    /\ DocOf(store', id) = <<Doc(id, IngestBody(dataset, embeddings, labels, i))>>
          /\ (store'.index # "absent" /\ DocOf(store', id) # DocOf(store, id)) =>
                \/ /\ ingest'.idx = ingest.idx + 1
                   /\ dataset[ingest'.idx].item_id = id
                   /\ DocOf(store', id) = <<Doc(id, IngestBody(dataset, embeddings, labels, ingest'.idx))>>
                \/ \E w \in late \ late' :
                      /\ w.id = id
                      /\ DocOf(store', id) = <<Doc(id, w.body)>>]_vars

\* C19 witness: two rows have the same id and different images; the write of
\* the first timed out, the next run wrote both rows, and the late write
\* arrived after them: the index holds the first row's body, whole.
LateWriteWon ==
    /\ ingest.pc = "running"
    /\ ingest.idx = 2
    /\ Len(dataset) = 2
    /\ dataset[1].item_id = dataset[2].item_id
    /\ dataset[1].path # dataset[2].path
    /\ store.docs = <<Doc(dataset[1].item_id, IngestBody(dataset, embeddings, labels, 1))>>

\* C20: again and again the visible documents are exactly the documents in
\* the index, so a document that a write left there is visible at some later
\* time unless it is replaced or deleted by then, and one refresh is what
\* makes it so; a search that the index answers before that is computed on
\* the visible documents alone, so it can miss the document but its outcome,
\* error or not, is what it would be without the document.
EventuallyVisible ==
    /\ []<>(searchable = store.docs)
    /\ [][/\ searchable' # searchable => (store'.index = "absent" \/ searchable' = store.docs)
          /\ (/\ req.pc = "SEARCHING"
              /\ req'.pc # "SEARCHING"
              /\ req'.err # "ConnectionError"
              /\ searchable # store.docs)
                => LET res == EsSearchKnn([store EXCEPT !.docs = searchable],
                                          searchable, req.vector, req.k)
                   IN  req'.err = res.err /\ req'.hits = res.hits]_vars

\* C20 witness: a query with k >= 1 was answered by the knn index while a
\* written document was not visible yet; it ended without error and without
\* that document.
MissedUnrefreshed ==
    /\ req.pc = "COMPLETE"
    /\ req.k >= 1
    /\ store.index = "knn"
    /\ Len(store.docs) = 1
    /\ searchable = <<>>
    /\ req.hits = <<>>

\* C21: a run of the ingestion cell that went through the whole loop over a
\* dataset with at least one row ends with its check passed: the match_all
\* search found a document.
VerificationFindsData ==
    (ingest.pc \in {"done", "failed"} /\ Len(dataset) > 0 /\ store.docs # <<>>)
        => ingest.pc = "done"

\* C24: es.search is called only from ENCODING, at the moment predict returns
\* a vector; when predict raises, the request ends in ERROR with that error,
\* with no vector and without es.search having been called.
EncodeThenSearch ==
    [][/\ req'.storeCalls > req.storeCalls =>
             (/\ req.pc = "ENCODING"
              /\ req.encCalls = 1
              /\ req'.pc = "SEARCHING"
              /\ req'.vector = Encoded(req)
              /\ req'.err = None)
       /\ (req.pc = "ENCODING" /\ req'.pc = "ERROR") =>
             (/\ req'.err = "ModelError"
              /\ req'.vector = <<>>
              /\ req'.storeCalls = 0
              /\ req'.hits = <<>>)
       /\ (req.pc = "ERROR" /\ req.err = "ModelError") =>
             req'.storeCalls = 0]_vars

\* C24 witness: predict raised, and the request ended with its error before
\* any search.
EncoderErrorEndsRequest ==
    /\ req.pc = "ERROR"
    /\ req.err = "ModelError"
    /\ req.encCalls = 1
    /\ req.storeCalls = 0
    /\ req.vector = <<>>

\* C29: the image and the name attached to a hit are those of the row whose
\* embedding the index holds under the hit's id.
EnrichedFromStoredRow ==
    \A i \in 1..Len(req.images) :
        LET held == DocOf(store, req.hits[i].id)
        IN  held # <<>> =>
               /\ held[1].embeddings = ClipImage(req.images[i].image)
               /\ held[1].item_name_in_en_us = req.images[i].name_and_score[2]

\* C30: when the knn index answers a query of the right dimension with k >= 1
\* while every document in it is visible, the hits are min(k, documents in the
\* index) in number, their ids differ from one another, and each is the id of
\* a document in the index.
ExactlyMinKHits ==
    [][(/\ req.pc = "SEARCHING"
        /\ req'.pc # "SEARCHING"
        /\ req'.err # "ConnectionError"
        /\ store.index = "knn"
        /\ searchable = store.docs
        /\ Len(req.vector) = dimension
        /\ req.k >= 1)
          => (/\ req'.pc = "ENRICHING"
              /\ Len(req'.hits) = (IF req.k < Len(store.docs) THEN req.k ELSE Len(store.docs))
              /\ \A i, j \in 1..Len(req'.hits) : i # j => req'.hits[i].id # req'.hits[j].id
              /\ \A i \in 1..Len(req'.hits) : CountId(store.docs, req'.hits[i].id) = 1)]_vars

\* C30 witness: k = 2 was asked of a knn index whose one document was visible,
\* and one hit came back.
FewerDocsThanK ==
    /\ req.pc = "ENRICHING"
    /\ req.k = 2
    /\ store.index = "knn"
    /\ Len(store.docs) = 1
    /\ searchable = store.docs
    /\ Len(req.hits) = 1
    /\ req.images = <<>>

\* C25: a query request that was received ends, in COMPLETE or in ERROR; a
\* call to the endpoint or to the index that does not answer ends the request
\* with the client's error.
QueryEnds ==
    (req.pc = "RECEIVED") ~> (req.pc \in {"COMPLETE", "ERROR"})

\* C25 witness: es.search did not answer an index that held visible documents,
\* and the request ended with the client's error.
SearchGaveUp ==
    /\ req.pc = "ERROR"
    /\ req.err = "ConnectionError"
    /\ req.storeCalls = 1
    /\ store.index = "knn"
    /\ searchable # <<>>
    /\ searchable = store.docs

\* The ingestion loop run from its first row to row n of ds, over store st.
RECURSIVE IngestAll(_, _, _)
IngestAll(st, ds, n) ==
    IF n = 0 THEN st
    ELSE EsIndex(IngestAll(st, ds, n - 1), ds[n].item_id,
                 IngestBody(ds, LoadEmbeddings(ds), RangeIndex(ds), n))

\* The rows of ds taken in the order p, p a permutation of 1..Len(ds).
Orders(n) == {p \in [1..n -> 1..n] : \A i, j \in 1..n : i # j => p[i] # p[j]}
Reordered(ds, p) == [i \in 1..Len(ds) |-> ds[p[i]]]
DocSet(st) == {st.docs[i] : i \in 1..Len(st.docs)}

\* C26: the documents in the index after the loop went over the whole dataset
\* are those the loop leaves when it takes the rows in any other order.
OrderIrrelevant ==
    (ingest.pc \in {"done", "failed"} /\ ingest.idx = Len(dataset)) =>
        \A p \in Orders(Len(dataset)) :
            DocSet(store) = DocSet(IngestAll(NoStore, Reordered(dataset, p), Len(dataset)))

\* C27: a step of a query changes neither the index nor anything a later
\* query reads: the documents, what is visible of them, the image files that
\* encode_image opens.
QueryLeavesNoTrace ==
    [][(InQuery /\ req' # req) =>
          (store' = store /\ searchable' = searchable /\ files' = files)]_vars

\* C28: every document in the index holds, under its item id, the embedding
\* of the image of a row with that item id, and the ingestion loop finds an
\* embedding for every row, whatever the labels of the rows.
RowsKeepOwnEmbedding ==
    /\ ingest.pc # "indexerror"
    /\ \A i \in 1..Len(store.docs) :
          \E r \in 1..Len(dataset) :
              /\ dataset[r].item_id = store.docs[i].id
              /\ store.docs[i].embeddings = ClipImage(dataset[r].path)

\* C22: a request whose content type is neither application/json nor
\* application/x-image fails in input_fn, on its assert: nothing is decoded,
\* predict_fn does not run and no embedding is answered.
UnknownTypeRefused ==
    (call.pc # "idle" /\ call.content_type \notin {"application/json", "application/x-image"})
        => /\ call.pc \in {"input_fn", "failed"}
           /\ call.pc = "failed" => call.err \in {"AssertionError", "ModelError"}
           /\ call.data = NoData
           /\ call.prediction = <<>>
           /\ call.response = <<>>

\* C22 witness: the image endpoint was sent a good image as text/csv and
\* refused it.
CsvImageRefused ==
    /\ call.pc = "failed"
    /\ call.err = "AssertionError"
    /\ call.content_type = "text/csv"
    /\ call.encode_type = "IMAGE"
    /\ call.body = ImageBytes("p1")

\* C23: a request that has ended and whose input was malformed (bytes that
\* are no image for the image endpoint, an empty string or the prompt of an
\* empty item name for the text endpoint), or that found the model
\* unavailable, has failed and carries no embedding.
MalformedInputFails ==
    (/\ call.pc \in {"answered", "failed"}
     /\ \/ call.err = "ModelError"
        \/ /\ call.encode_type = "IMAGE"
           /\ call.content_type = "application/x-image"
           /\ call.body = ImageBytes(NoImage)
        \/ /\ call.encode_type = "TEXT"
           /\ call.content_type = "application/json"
           /\ call.body \in {JsonInputs(EmptyString), JsonInputs(Prompt(""))})
        => (call.pc = "failed" /\ call.response = <<>>)

====
